---- MODULE Spec2Model ----
(***************************************************************************)
(* A model of scripts/pathfinder2cofi.py: the binary snapshot decoder      *)
(* read_pathfinder2_safes_bin, the capacity rule trust_transfer_limit, the *)
(* module-level graph-building loop and write_cofi_edges_csv.              *)
(*                                                                         *)
(* Python values are modelled as follows.                                  *)
(*  - bytes objects are sequences of numbers 0..255;                       *)
(*  - an address key hex(int.from_bytes(b, 'big')) is the byte string b    *)
(*    without its leading zero bytes: two byte strings give the same hex   *)
(*    string exactly when they agree after stripping leading zeros;        *)
(*  - a defaultdict of defaultdicts is a function whose DOMAIN is the set  *)
(*    of outer keys, each value a function whose DOMAIN is the inner keys; *)
(*    a subscript read of a missing key inserts it (Touch, Touch2);        *)
(*  - an int that TLC's 32-bit integers cannot hold is a pair <<hi, lo>>   *)
(*    standing for hi * 10^8 + lo (only write_cofi_edges_csv meets such    *)
(*    amounts).                                                            *)
(***************************************************************************)
EXTENDS Integers, Sequences, FiniteSets, TLC

VARIABLES
    pc,             \* position of the script
    err,            \* the exception that ended the run, or "none"
    nleft,          \* iterations left of the decoder's current range() loop
    addr,           \* read_pathfinder2_safes_bin: the list addr
    organizations,  \* the set organizations
    tbl_trust,      \* tbl_trust (local of the decoder, then the global)
    tbl_uti,        \* tbl_utilized (local of the decoder), then the global tbl_uti
    rec,            \* the balance record the decoder read last (its input)
    unread,         \* bytes of the file the decoder left unread when it closed it
    budget,         \* entries the snapshot may still declare (bounds the input)
    endpoints,      \* the accounts the decoded balance table named when it was returned
    all_addrs,      \* graph loop: accounts of all_addrs not yet visited
    frm,            \* graph loop: the loop variable frm
    all_,           \* graph loop: accounts of all_ not yet visited
    graph,          \* edges of the DiGraph: <<frm, to>> -> [weight, capacity]
    tbl,            \* write_cofi_edges_csv: its parameter tbl
    index,          \* write_cofi_edges_csv: the dict index
    rows,           \* write_cofi_edges_csv: the data rows written
    call            \* the last direct call of trust_transfer_limit and its result

vars == <<pc, err, nleft, addr, organizations, tbl_trust, tbl_uti, rec, unread, budget,
          endpoints, all_addrs, frm, all_, graph, tbl, index, rows, call>>

-----------------------------------------------------------------------------
(* Bounds of the model *)

\* most entries a snapshot declares in all (addresses, organizations, trust
\* edges and balance records together)
MaxEntries == 4
\* most bytes of a balance magnitude
MaxBalBytes == 2
\* most bytes left in the file after the last declared balance record
MaxUnread == 1
\* largest balance of the tables trust_transfer_limit is called on directly
MaxBalance == 3
\* most rows of a csv file
MaxRows == 2

(* Program constants *)

\* struct.unpack('>20s', buf.read(20))
AddrLen == 20
\* struct.unpack('>I', buf.read(4))
U32Len == 4

-----------------------------------------------------------------------------
(* bytes *)

\* the byte values the snapshots of the model are written with
Bytes == {0, 1}

Min(a, b) == IF a <= b THEN a ELSE b

\* int.from_bytes(b, byteorder='big')
RECURSIVE FromBytesBig(_)
FromBytesBig(b) ==
    IF b = <<>> THEN 0
    ELSE FromBytesBig(SubSeq(b, 1, Len(b) - 1)) * 256 + b[Len(b)]

\* a decoder that reads the magnitude most significant byte first
FromBytesLittle_BigEndian(b) == FromBytesBig(b)

\* int.from_bytes(b, byteorder='little')
RECURSIVE FromBytesLittle(_)
FromBytesLittle(b) ==
    IF b = <<>> THEN 0
    ELSE b[1] + 256 * FromBytesLittle(Tail(b))

\* hex(int.from_bytes(address, byteorder='big')): the key of an address
RECURSIVE Hex(_)
Hex(b) ==
    IF b = <<>> THEN <<>>
    ELSE IF b[1] = 0 THEN Hex(Tail(b)) ELSE b

\* the big-endian uint32 a snapshot holds for n
EncU32(n) ==
    <<(n \div 16777216) % 256, (n \div 65536) % 256, (n \div 256) % 256, n % 256>>

\* what buf.read(k) returns at the end of the file: fewer than k bytes
ShortReads(k) == {[i \in 1..m |-> 0] : m \in 0..(k - 1)}

\* what buf.read(4) returns for a count or an index field
U32Reads(max) == {EncU32(n) : n \in 0..max} \cup ShortReads(U32Len)

\* what buf.read(4) returns for an index field: the indices of the address
\* table and the first one beyond it
IndexReads == U32Reads(Len(addr))

\* the i-th address of the snapshots of the model: pairwise distinct, with
\* leading zero bytes
Address(i) == [j \in 1..AddrLen |-> IF j = AddrLen - i THEN 1 ELSE 0]

AddressReads(i) == {Address(i)} \cup ShortReads(AddrLen)

\* the trust percentages the snapshots of the model hold
Percents == {50, 100}

ByteReads(S) == {<<x>> : x \in S} \cup ShortReads(1)

\* byte strings of length n over Bytes
BytesOfLen(n) == [1..n -> Bytes]

\* what buf.read(n) returns for a balance magnitude of n declared bytes
MagnitudeReads(n) == BytesOfLen(n) \cup ShortReads(n)

-----------------------------------------------------------------------------
(* defaultdict(lambda: defaultdict(lambda: 0)) *)

EmptyMap == [k \in {} |-> 0]

\* t[a][b] without the insertion: the value a read returns
Get(t, a, b) == IF a \in DOMAIN t /\ b \in DOMAIN t[a] THEN t[a][b] ELSE 0

\* the table after the subscript t[a]: a missing outer key is inserted
Touch(t, a) == IF a \in DOMAIN t THEN t ELSE (a :> EmptyMap) @@ t

\* the table after the read t[a][b]: missing keys are inserted, with 0
Touch2(t, a, b) ==
    LET t1 == Touch(t, a)
    IN  IF b \in DOMAIN t1[a] THEN t1
        ELSE [t1 EXCEPT ![a] = (b :> 0) @@ @]

\* the table after the assignment t[a][b] = v
Put(t, a, b, v) ==
    LET t1 == Touch(t, a)
    IN  [t1 EXCEPT ![a] = (b :> v) @@ @]

Keys(t) == DOMAIN t

-----------------------------------------------------------------------------
(* trust_transfer_limit *)

\* Python's == on a str and an int is False, whatever they hold
PyStr(x) == [type |-> "str", value |-> x]
PyInt(x) == [type |-> "int", value |-> x]
PyEq(x, y) == x.type = y.type /\ x.value = y.value

\* to in organizations, for the str to and the set of ints organizations
InOrganizations(to, orgs) == \E o \in orgs : PyEq(PyStr(to), PyInt(o))

\* the rule without the cap by the sender's own tokens
trust_transfer_limit_uncapped(uti, orgs, from, to, trust_percentage) ==
    IF from = to \/ InOrganizations(to, orgs)
    THEN [ret |-> Get(uti, from, from), uti |-> Touch2(uti, from, from)]
    ELSE LET receiver_balance == Get(uti, to, from)
             scaled_receiver_balance ==
                 (receiver_balance * (100 - trust_percentage)) \div 100
             amount == (Get(uti, to, to) * trust_percentage) \div 100
             uti2 == Touch2(Touch2(uti, to, from), to, to)
         IN  IF amount < receiver_balance
             THEN [ret |-> 0, uti |-> uti2]
             ELSE [ret |-> amount - scaled_receiver_balance, uti |-> uti2]

\* the rule with the test for an exceeded maximum turned around
trust_transfer_limit_flipped(uti, orgs, from, to, trust_percentage) ==
    IF from = to \/ InOrganizations(to, orgs)
    THEN [ret |-> Get(uti, from, from), uti |-> Touch2(uti, from, from)]
    ELSE LET receiver_balance == Get(uti, to, from)
             scaled_receiver_balance ==
                 (receiver_balance * (100 - trust_percentage)) \div 100
             amount == (Get(uti, to, to) * trust_percentage) \div 100
             uti2 == Touch2(Touch2(uti, to, from), to, to)
         IN  IF amount > receiver_balance
             THEN [ret |-> 0, uti |-> uti2]
             ELSE [ret |-> Min(amount - scaled_receiver_balance, Get(uti, from, from)),
                   uti |-> Touch2(uti2, from, from)]

\* trust_transfer_limit(frm, to, trust_percentage) on the globals uti and orgs:
\* the value returned (ret) and tbl_uti after the reads of the call (uti)
trust_transfer_limit(uti, orgs, from, to, trust_percentage) ==
    IF from = to \/ InOrganizations(to, orgs)
    THEN [ret |-> Get(uti, from, from), uti |-> Touch2(uti, from, from)]
    ELSE LET receiver_balance == Get(uti, to, from)
             uti1 == Touch2(uti, to, from)
             scaled_receiver_balance ==
                 (receiver_balance * (100 - trust_percentage)) \div 100
             amount == (Get(uti1, to, to) * trust_percentage) \div 100
             uti2 == Touch2(uti1, to, to)
         IN  IF amount < receiver_balance
             THEN [ret |-> 0, uti |-> uti2]
             ELSE [ret |-> Min(amount - scaled_receiver_balance, Get(uti2, from, from)),
                   uti |-> Touch2(uti2, from, from)]

-----------------------------------------------------------------------------
(* write_cofi_edges_csv *)

\* the divisor of amt // 1e8
E8 == 100000000

\* the int n as a pair <<hi, lo>> with n = hi * 10^8 + lo
Wide(n) == <<n \div E8, n % E8>>

WLess(a, b) == a[1] < b[1] \/ (a[1] = b[1] /\ a[2] < b[2])

\* a + n for a pair a and 0 <= n < 10^8
WAddSmall(a, n) ==
    IF a[2] + n >= E8 THEN <<a[1] + 1, a[2] + n - E8>> ELSE <<a[1], a[2] + n>>

\* a + b for pairs
WAdd(a, b) == WAddSmall(<<a[1] + b[1], a[2]>>, b[2])

\* 2^53 .. 2^56 as pairs: where the spacing of IEEE doubles doubles
Pow2_53 == <<90071992, 54740992>>
Pow2_54 == <<180143985, 9481984>>
Pow2_55 == <<360287970, 18963968>>
Pow2_56 == <<720575940, 37927936>>

\* the spacing of the doubles around the int a (a < 2^57)
Ulp(a) ==
    IF WLess(a, Pow2_53) THEN 1
    ELSE IF WLess(a, Pow2_54) THEN 2
    ELSE IF WLess(a, Pow2_55) THEN 4
    ELSE IF WLess(a, Pow2_56) THEN 8
    ELSE 16

\* float(a): the double nearest to the int a, ties to the even significand
\* (the spacing divides 10^8, so remainders are taken on the low part)
ToFloat(a) ==
    LET u == Ulp(a)
        r == a[2] % u
        down == <<a[1], a[2] - r>>
        up == WAddSmall(down, u)
    IN  IF r = 0 THEN a
        ELSE IF 2 * r < u THEN down
        ELSE IF 2 * r > u THEN up
        ELSE IF (down[2] \div u) % 2 = 0 THEN down ELSE up

\* int(amt // 1e8): amt is converted to a double and floor-divided by the
\* double 1e8; the quotient of a double by 1e8 is exact in this range
Rescale(amt) == ToFloat(amt)[1]

\* all_nodes: every outer key and every inner key
AllNodes(t) == Keys(t) \cup UNION {Keys(t[f]) : f \in Keys(t)}

\* a numbering that starts at 1
Enumerations_from_one(S) ==
    {f \in [S -> 1..Cardinality(S)] : \A x, y \in S : f[x] = f[y] => x = y}

\* dict((addr, idx) for idx, addr in enumerate(all_nodes)): the order of a
\* set is not fixed, every numbering 0..n-1 of the nodes can come out
Enumerations(S) ==
    {f \in [S -> 0..(Cardinality(S) - 1)] : \A x, y \in S : f[x] = f[y] => x = y}

\* the data rows written for the table t under the numbering idx
CofiRows(t, idx) ==
    {<<idx[f], idx[to], Rescale(t[f][to])>> :
        <<f, to>> \in {e \in AllNodes(t) \X AllNodes(t) :
                          /\ e[1] \in Keys(t)
                          /\ e[2] \in Keys(t[e[1]])
                          /\ e[1] # e[2]
                          /\ Rescale(t[e[1]][e[2]]) > 0}}

write_cofi_edges_csv(t) ==
    /\ tbl' = t
    /\ index' \in Enumerations(AllNodes(t))
    /\ rows' = CofiRows(t, index')

-----------------------------------------------------------------------------
(* read_pathfinder2_safes_bin *)

NoRec == [kind |-> "none"]
NoCall == [kind |-> "none"]

Idle ==
    /\ endpoints = {}
    /\ all_addrs = {} /\ frm = <<>> /\ all_ = {} /\ graph = EmptyMap
    /\ tbl = EmptyMap /\ index = EmptyMap /\ rows = {} /\ call = NoCall

Init ==
    /\ pc = "number_of_addresses"
    /\ err = "none"
    /\ nleft = 0
    /\ addr = <<>>
    /\ organizations = {}
    /\ tbl_trust = EmptyMap
    /\ tbl_uti = EmptyMap
    /\ rec = NoRec
    /\ unread = 0
    /\ budget = MaxEntries
    /\ Idle

\* an exception leaves the decoder: nothing is returned, the script ends
Raise(e) ==
    /\ pc' = "failed"
    /\ err' = e
    /\ nleft' = 0
    /\ addr' = <<>>
    /\ organizations' = {}
    /\ tbl_trust' = EmptyMap
    /\ tbl_uti' = EmptyMap
    /\ rec' = NoRec
    /\ unread' = 0
    /\ budget' = 0

Rest == <<endpoints, all_addrs, frm, all_, graph, tbl, index, rows, call>>

\* a count field: struct.unpack('>I', buf.read(4)), then the range() loop
ReadCount(here, next) ==
    /\ pc = here
    /\ nleft = 0
    /\ \E b \in U32Reads(budget) :
          IF Len(b) # U32Len THEN Raise("struct.error")
          ELSE /\ pc' = next
               /\ nleft' = FromBytesBig(b)
               /\ budget' = budget - FromBytesBig(b)
               /\ rec' = NoRec
               /\ UNCHANGED <<err, addr, organizations, tbl_trust, tbl_uti, unread>>
    /\ UNCHANGED Rest

ReadNumberOfAddresses == ReadCount("number_of_addresses", "addresses")

ReadAddress ==
    /\ pc = "addresses"
    /\ nleft > 0
    /\ \E b \in AddressReads(Len(addr)) :
          IF Len(b) # AddrLen THEN Raise("struct.error")
          ELSE /\ addr' = Append(addr, Hex(b))
               /\ nleft' = nleft - 1
               /\ UNCHANGED <<pc, err, organizations, tbl_trust, tbl_uti, rec, unread, budget>>
    /\ UNCHANGED Rest

ReadNumberOfOrganizations == ReadCount("addresses", "organizations")

ReadOrganization ==
    /\ pc = "organizations"
    /\ nleft > 0
    /\ \E b \in IndexReads :
          IF Len(b) # U32Len THEN Raise("struct.error")
          ELSE /\ organizations' = organizations \cup {FromBytesBig(b)}
               /\ nleft' = nleft - 1
               /\ UNCHANGED <<pc, err, addr, tbl_trust, tbl_uti, rec, unread, budget>>
    /\ UNCHANGED Rest

ReadNumberOfTrustEdges == ReadCount("organizations", "trust_edges")

ReadTrustEdge ==
    /\ pc = "trust_edges"
    /\ nleft > 0
    /\ \E fb \in IndexReads, tb \in IndexReads, pb \in ByteReads(Percents) :
          IF Len(fb) # U32Len \/ Len(tb) # U32Len \/ Len(pb) # 1
          THEN Raise("struct.error")
          ELSE LET f == FromBytesBig(fb)
                   t == FromBytesBig(tb)
               IN  IF f >= Len(addr) \/ t >= Len(addr) THEN Raise("IndexError")
                   ELSE /\ tbl_trust' = Put(tbl_trust, addr[f + 1], addr[t + 1], pb[1])
                        /\ nleft' = nleft - 1
                        /\ UNCHANGED <<pc, err, addr, organizations, tbl_uti, rec, unread, budget>>
    /\ UNCHANGED Rest

ReadNumberOfBalances == ReadCount("trust_edges", "balances")

ReadBalance ==
    /\ pc = "balances"
    /\ nleft > 0
    /\ \E tb \in IndexReads, fb \in IndexReads,
          sb \in ByteReads(0..MaxBalBytes) :
          IF Len(tb) # U32Len \/ Len(fb) # U32Len \/ Len(sb) # 1
          THEN Raise("struct.error")
          ELSE \E balance \in MagnitudeReads(sb[1]) :
               IF Len(balance) # sb[1] THEN Raise("struct.error")
               ELSE LET t == FromBytesBig(tb)
                        f == FromBytesBig(fb)
                    IN  IF f >= Len(addr) \/ t >= Len(addr) THEN Raise("IndexError")
                        ELSE /\ tbl_uti' = Put(tbl_uti, addr[f + 1], addr[t + 1],
                                               FromBytesLittle(balance))
                             /\ rec' = [kind |-> "balance", to |-> t, frm |-> f,
                                        bal_size |-> sb[1], balance |-> balance,
                                        again |-> addr[f + 1] \in DOMAIN tbl_uti
                                                  /\ addr[t + 1] \in DOMAIN tbl_uti[addr[f + 1]],
                                        old |-> Get(tbl_uti, addr[f + 1], addr[t + 1])]
                             /\ nleft' = nleft - 1
                             /\ UNCHANGED <<pc, err, addr, organizations, tbl_trust, unread, budget>>
    /\ UNCHANGED Rest

\* the with block closes the file, whatever is left in it, and the three
\* tables are returned and bound to the globals
Return ==
    /\ pc = "balances"
    /\ nleft = 0
    /\ pc' = "decoded"
    /\ unread' \in 0..MaxUnread
    /\ rec' = NoRec
    /\ endpoints' = AllNodes(tbl_uti)
    /\ UNCHANGED <<err, nleft, addr, organizations, tbl_trust, tbl_uti, budget>>
    /\ UNCHANGED <<all_addrs, frm, all_, graph, tbl, index, rows, call>>

Decode ==
    \/ ReadNumberOfAddresses
    \/ ReadAddress
    \/ ReadNumberOfOrganizations
    \/ ReadOrganization
    \/ ReadNumberOfTrustEdges
    \/ ReadTrustEdge
    \/ ReadNumberOfBalances
    \/ ReadBalance
    \/ Return

-----------------------------------------------------------------------------
(* the graph-building loop of the module *)

\* graph = nx.DiGraph(); all_addrs = set(tbl_trust.keys()) | tbl_uti.keys()
StartGraph ==
    /\ pc = "decoded"
    /\ pc' = "for_frm"
    /\ graph' = EmptyMap
    /\ all_addrs' = Keys(tbl_trust) \cup Keys(tbl_uti)
    /\ all_' = {}
    /\ unread' = 0
    /\ UNCHANGED <<err, nleft, addr, organizations, tbl_trust, tbl_uti, rec, budget,
                   endpoints, frm, tbl, index, rows, call>>

\* for frm in all_addrs: uti = tbl_uti[frm]; trusts = tbl_trust[frm];
\* all_ = set(uti.keys()) | trusts.keys()
ForFrm ==
    /\ pc = "for_frm"
    /\ all_ = {}
    /\ \E f \in all_addrs :
          /\ frm' = f
          /\ all_addrs' = all_addrs \ {f}
          /\ tbl_uti' = Touch(tbl_uti, f)
          /\ tbl_trust' = Touch(tbl_trust, f)
          /\ all_' = Keys(tbl_uti'[f]) \cup Keys(tbl_trust'[f])
    /\ UNCHANGED <<pc, err, nleft, addr, organizations, rec, unread, budget, endpoints,
                   graph, tbl, index, rows, call>>

\* for to in all_: the body of the inner loop
ForTo ==
    /\ pc = "for_frm"
    /\ \E to \in all_ :
          /\ all_' = all_ \ {to}
          /\ IF frm = to
             THEN UNCHANGED <<tbl_uti, tbl_trust, graph>>
             ELSE LET utilized == Get(tbl_uti, frm, to)
                      uti1 == Touch2(tbl_uti, frm, to)
                      trust_percentage == Get(tbl_trust, frm, to)
                      trust1 == Touch2(tbl_trust, frm, to)
                      capacity == trust_transfer_limit(uti1, organizations, frm, to,
                                                       trust_percentage)
                  IN  /\ tbl_uti' = capacity.uti
                      /\ tbl_trust' = Put(trust1, frm, to, trust_percentage)
                      /\ graph' = IF utilized > 0
                                  THEN (<<frm, to>> :> [weight |-> utilized,
                                                        capacity |-> capacity.ret]) @@ graph
                                  ELSE graph
    /\ UNCHANGED <<pc, err, nleft, addr, organizations, rec, unread, budget, endpoints,
                   all_addrs, frm, tbl, index, rows, call>>

\* write_cofi_edges_csv(tbl_uti, ...), once both loops are over
WriteBalances ==
    /\ pc = "for_frm"
    /\ all_ = {}
    /\ all_addrs = {}
    /\ pc' = "written"
    /\ write_cofi_edges_csv([f \in Keys(tbl_uti) |->
                               [t \in Keys(tbl_uti[f]) |-> Wide(tbl_uti[f][t])]])
    /\ UNCHANGED <<err, nleft, addr, organizations, tbl_trust, tbl_uti, rec, unread,
                   budget, endpoints, all_addrs, frm, all_, graph, call>>

Next ==
    \/ Decode
    \/ StartGraph
    \/ ForFrm
    \/ ForTo
    \/ WriteBalances

Spec == Init /\ [][Next]_vars

-----------------------------------------------------------------------------
(* trust_transfer_limit called on any balance table *)

\* the two accounts of the tables the capacity rule is called on
LimitAddr == <<Hex(Address(0)), Hex(Address(1))>>
LimitAccounts == {LimitAddr[i] : i \in 1..Len(LimitAddr)}

InitLimit ==
    /\ pc = "limit"
    /\ err = "none"
    /\ nleft = 0
    /\ addr = LimitAddr
    /\ organizations \in {{}, {1}}
    /\ tbl_trust = EmptyMap
    /\ tbl_uti \in [LimitAccounts -> [LimitAccounts -> 0..MaxBalance]]
    /\ rec = NoRec
    /\ unread = 0
    /\ budget = 0
    /\ Idle

CallLimit ==
    /\ pc = "limit"
    /\ \E f \in LimitAccounts, t \in LimitAccounts, p \in 0..100 :
          LET r == trust_transfer_limit(tbl_uti, organizations, f, t, p)
          IN  /\ call' = [kind |-> "call", frm |-> f, to |-> t,
                          trust_percentage |-> p, ret |-> r.ret]
              /\ tbl_uti' = r.uti
    /\ pc' = "called"
    /\ UNCHANGED <<err, nleft, addr, organizations, tbl_trust, rec, unread, budget,
                   endpoints, all_addrs, frm, all_, graph, tbl, index, rows>>

NextLimit == CallLimit

SpecLimit == InitLimit /\ [][NextLimit]_vars

-----------------------------------------------------------------------------
(* read_pathfinder2_edges_csv, then write_cofi_edges_csv on its table *)

\* the account names of the csv rows of the model
CsvNames == {"A", "B", "C"}

\* the capacity fields of the csv rows of the model, as lists of hex digits
\* (16 stands for a character that is no hex digit):
\* 0, 5f5e0ff = 99999999, ee6b280 = 250000000,
\* 20000002b298ff = 9007199299999999, and a field that is no number
CsvCaps ==
    { <<0>>,
      <<5, 15, 5, 14, 0, 15, 15>>,
      <<14, 14, 6, 11, 2, 8, 0>>,
      <<2, 0, 0, 0, 0, 0, 0, 2, 11, 2, 9, 8, 15, 15>>,
      <<16>> }

\* the rows the csv reader yields: four fields, or a row of three
CsvRows ==
    {<<f, t, f, c>> : f \in CsvNames, t \in CsvNames, c \in CsvCaps}
    \cup {<<"A", "B", <<0>>>>}

\* int(cap, 16)
RECURSIVE HexToInt(_)
HexToInt(cap) ==
    IF cap = <<>> THEN <<0, 0>>
    ELSE LET a == HexToInt(SubSeq(cap, 1, Len(cap) - 1))
             lo == a[2] * 16 + cap[Len(cap)]
         IN  <<a[1] * 16 + (lo \div E8), lo % E8>>

IsHex(cap) == cap # <<>> /\ \A i \in 1..Len(cap) : cap[i] \in 0..15

\* tbl[frm][to] for a table of amounts: 0 for a missing key
GetWide(t, a, b) == IF a \in DOMAIN t /\ b \in DOMAIN t[a] THEN t[a][b] ELSE <<0, 0>>

InitCofi ==
    /\ pc = "csv"
    /\ err = "none"
    /\ nleft = 0
    /\ addr = <<>>
    /\ organizations = {}
    /\ tbl_trust = EmptyMap
    /\ tbl_uti = EmptyMap
    /\ rec = NoRec
    /\ unread = 0
    /\ budget = MaxRows
    /\ Idle

CofiRest == <<err, nleft, addr, organizations, tbl_trust, tbl_uti, rec, unread,
              endpoints, all_addrs, frm, all_, graph, call>>

\* one row of the csv file: cap = int(cap, 16); tbl[frm][to] += cap
ReadCsvRow ==
    /\ pc = "csv"
    /\ budget > 0
    /\ \E row \in CsvRows :
          IF Len(row) # 4 \/ ~IsHex(row[4])
          THEN /\ pc' = "failed"
               /\ err' = "ValueError"
               /\ tbl' = EmptyMap
               /\ budget' = 0
               /\ UNCHANGED <<nleft, addr, organizations, tbl_trust, tbl_uti, rec, unread,
                              endpoints, all_addrs, frm, all_, graph, call, index, rows>>
          ELSE /\ tbl' = Put(tbl, row[1], row[2],
                             WAdd(GetWide(tbl, row[1], row[2]), HexToInt(row[4])))
               /\ budget' = budget - 1
               /\ UNCHANGED <<pc, index, rows>>
               /\ UNCHANGED CofiRest

\* the reader returns its table at the end of the file, and the table is
\* passed to write_cofi_edges_csv
WriteCsvTable ==
    /\ pc = "csv"
    /\ pc' = "written"
    /\ write_cofi_edges_csv(tbl)
    /\ UNCHANGED budget
    /\ UNCHANGED CofiRest

NextCofi ==
    \/ ReadCsvRow
    \/ WriteCsvTable

SpecCofi == InitCofi /\ [][NextCofi]_vars

-----------------------------------------------------------------------------
(* The claims *)

AddrKeys == {addr[i] : i \in 1..Len(addr)}

\* the accounts whose address-table index the organization section lists
OrganizationAccounts == {addr[o + 1] : o \in {x \in organizations : x < Len(addr)}}

\* C1: in a decoded snapshot that lists account o's index in its
\* organization section, trust_transfer_limit(a, o, p) is balance[a][a]
\* for every account a and every percent p in 0..100.
C1_OrganizationRule ==
    pc = "decoded" =>
        \A o \in OrganizationAccounts, a \in AddrKeys, p \in 0..100 :
            trust_transfer_limit(tbl_uti, organizations, a, o, p).ret
                = Get(tbl_uti, a, a)

\* the sum of b[i] * 256^(i-1)
RECURSIVE LittleEndianSum(_, _)
LittleEndianSum(b, n) ==
    IF n = 0 THEN 0 ELSE LittleEndianSum(b, n - 1) + b[n] * 256 ^ (n - 1)

Decoding == pc \in {"number_of_addresses", "addresses", "organizations",
                    "trust_edges", "balances"}

C3_LimitRange ==
    call.kind = "call" =>
        /\ 0 <= call.ret
        /\ call.ret <= Get(tbl_uti, call.frm, call.frm)

\* a call between two accounts, the receiver holding tokens of the sender,
\* whose result lies strictly between the two bounds
C3_Witness ==
    /\ call.kind = "call"
    /\ call.frm # call.to
    /\ Get(tbl_uti, call.to, call.frm) > 0
    /\ 0 < call.ret
    /\ call.ret < Get(tbl_uti, call.frm, call.frm)

\* floor(amount / 10^8) of an amount hi * 10^8 + lo
ExactRescale(amt) == amt[1]

WrittenEntries ==
    {e \in AllNodes(tbl) \X AllNodes(tbl) : e[1] \in Keys(tbl) /\ e[2] \in Keys(tbl[e[1]])}

\* C4: every data row has amount > 0 and debtor # creditor, and its amount
\* is floor(amount / 10^8) of the entry [from][to] with these two indices;
\* an entry with from = to or with floor(amount / 10^8) <= 0 gives no row.
C4_RowsExact ==
    pc = "written" =>
        /\ \A r \in rows :
              /\ r[3] > 0
              /\ r[1] # r[2]
              /\ \E e \in WrittenEntries :
                    /\ index[e[1]] = r[1]
                    /\ index[e[2]] = r[2]
                    /\ r[3] = ExactRescale(tbl[e[1]][e[2]])
        /\ \A e \in WrittenEntries :
              (e[1] = e[2] \/ ExactRescale(tbl[e[1]][e[2]]) <= 0) =>
                  ~ \E r \in rows : r[1] = index[e[1]] /\ r[2] = index[e[2]]

\* C5: the decoder returns its tables only for a file whose length is
\* exactly what its counts declare: no byte is left when it returns.
C5_ExactLength == pc = "decoded" => unread = 0

\* C6: the decoder returns no tables for a snapshot with an index field
\* that is >= address_count: every organization index it returns is an
\* index of the address table.
C6_IndexInRange ==
    pc = "decoded" => \A o \in organizations : o < Len(addr)

IndexOf(a) == CHOOSE i \in 0..(Len(addr) - 1) : addr[i + 1] = a

\* C7: for from # to, to not an organization, trust_transfer_limit is
\* non-decreasing in the percent over 0..100: the result for a percent is at
\* least the result for every smaller percent.
C7_Monotone ==
    (/\ call.kind = "call"
     /\ call.frm # call.to
     /\ IndexOf(call.to) \notin organizations) =>
        \A p1 \in 0..call.trust_percentage :
            trust_transfer_limit(tbl_uti, organizations, call.frm, call.to, p1).ret
                <= call.ret

\* a call with a positive result, for balances where a smaller percent
\* falls below the receiver's holdings and gives 0
C7_Witness ==
    /\ call.kind = "call"
    /\ call.frm # call.to
    /\ IndexOf(call.to) \notin organizations
    /\ call.ret > 0
    /\ \E p1 \in 1..call.trust_percentage :
          /\ (Get(tbl_uti, call.to, call.to) * p1) \div 100
                 < Get(tbl_uti, call.to, call.frm)
          /\ trust_transfer_limit(tbl_uti, organizations, call.frm, call.to, p1).ret = 0

UsedIndices == {r[1] : r \in rows} \cup {r[2] : r \in rows}

NodeCount == Cardinality(AllNodes(tbl))

\* C8 as stated: the indices of the rows written are exactly 0..node_count-1.
C8_NoGaps == pc = "written" => UsedIndices = 0..(NodeCount - 1)

\* the nodes that are an endpoint of an entry with from # to whose amount is
\* at least 10^8
KeptNodes ==
    {n \in AllNodes(tbl) :
        \E e \in WrittenEntries :
            /\ n \in {e[1], e[2]}
            /\ e[1] # e[2]
            /\ ExactRescale(tbl[e[1]][e[2]]) > 0}

\* C8 as amended: index numbers the node universe one to one onto
\* 0..node_count-1, and the indices of the rows written are those of the
\* nodes that are an endpoint of an entry with from # to and
\* floor(amount / 10^8) > 0: a subset of 0..node_count-1.
C8_IndicesInRange ==
    pc = "written" =>
        /\ DOMAIN index = AllNodes(tbl)
        /\ {index[n] : n \in AllNodes(tbl)} = 0..(NodeCount - 1)
        /\ UsedIndices = {index[n] : n \in KeptNodes}
        /\ UsedIndices \subseteq 0..(NodeCount - 1)

\* a file written with a row, and with a node that no row names
C8_Witness ==
    /\ pc = "written"
    /\ rows # {}
    /\ UsedIndices # 0..(NodeCount - 1)

\* C9: the magnitude is decoded as the comment of the decoder says, 1 being
\* 01 01 and 256 being 02 01 00: the bytes after the count are the value,
\* most significant byte first.
C9_CommentEncoding ==
    rec.kind = "balance" =>
        Get(tbl_uti, addr[rec.frm + 1], addr[rec.to + 1]) = FromBytesBig(rec.balance)

\* C10: once the decoder has returned them, the trust and the balance table
\* do not change, and the node universe of the file written is the set of
\* accounts that a balance record of the snapshot names.
C10_NoMutation ==
    /\ [][(pc \in {"decoded", "for_frm"}) =>
            (tbl_uti' = tbl_uti /\ tbl_trust' = tbl_trust)]_vars
    /\ [](pc = "written" => DOMAIN index = endpoints)

====
